---------------------------- MODULE Spec2Model ----------------------------
(***************************************************************************)
(* A model of torchlet: the Element autodiff engine (torchlet/engine.py)   *)
(* and the Neuron / Layer / MLP modules built on it (torchlet/nn.py).      *)
(*                                                                         *)
(* Every Element lives in an arena, the sequence nodes; an Element's       *)
(* identity is its index.  A payload (numpy array) is a sequence of        *)
(* integers: a 0-d array is a one-element sequence with arr = FALSE, a     *)
(* 1-d array a sequence with arr = TRUE.  Integers stand for the doubles   *)
(* they denote exactly; builders whose result is not an integer of         *)
(* magnitude at most MaxAbs are outside the inputs that are enumerated.    *)
(***************************************************************************)
EXTENDS Integers, Sequences, FiniteSets, TLC

VARIABLES nodes, grad, err, log, net, outs, cap

vars == <<nodes, grad, err, log, net, outs, cap>>

(***************************************************************************)
(* Bounds of the model.                                                    *)
(***************************************************************************)
MaxNodes == 4        \* Elements in the arena, all builders (Spec)
MaxCore == 3         \* Elements in the arena, primitive builders (SpecCore)
MaxCalls == 2        \* backward() calls on one graph
MaxAbs == 40         \* magnitude of the payload entries that are enumerated
MaxFullOrder == 4    \* two-producer Elements whose set orders are all enumerated
MaxIn == 2           \* input width of a module
MaxWidth == 2        \* Neurons in a Layer of an MLP
MaxDepth == 2        \* Layers of an MLP
MaxInvoked == 9      \* parameters of a module that is called

LeafScalars == {-1, 0, 2}
LeafArrays == {<<2, -1>>}
Literals == {1, 3}
Exponents == {-1, 2, 3}
Seeds == {0, 1}
Inputs == <<2, 3, 5, 7>>

(***************************************************************************)
(* Payload arithmetic (numpy elementwise operations on equal shapes).      *)
(***************************************************************************)
None == <<>>

Abs(x) == IF x < 0 THEN -x ELSE x

RECURSIVE IPow(_, _)
IPow(x, p) ==
    IF p = 0 THEN 1
    ELSE IF p > 0 THEN x * IPow(x, p - 1)
    ELSE IPow(x, -p)      \* only used where x \in {-1, 1}: 1/x^(-p) = x^(-p)

ExactPow(x, p) == p >= 0 \/ x \in {-1, 1}

VAdd(x, y) == [i \in 1..Len(x) |-> x[i] + y[i]]
VMul(x, y) == [i \in 1..Len(x) |-> x[i] * y[i]]
VPow(x, p) == [i \in 1..Len(x) |-> IPow(x[i], p)]
VPos(x) == [i \in 1..Len(x) |-> IF x[i] > 0 THEN 1 ELSE 0]
ZerosLike(x) == [i \in 1..Len(x) |-> 0]
OnesLike(x) == [i \in 1..Len(x) |-> 1]
Small(x) == \A i \in 1..Len(x) : Abs(x[i]) <= MaxAbs

(***************************************************************************)
(* Element.__init__: a new Element appended to the arena N.                *)
(***************************************************************************)
Element(data, arr, children, op, p, idx) ==
    [data |-> data, arr |-> arr, args |-> children, op |-> op, p |-> p, idx |-> idx]

Leaf(x) == Element(<<x>>, FALSE, <<>>, "", 0, 0)
LeafArr(xs) == Element(xs, TRUE, <<>>, "", 0, 0)

\* _prev = set(_children)
Prev(N, v) == {N[v].args[k] : k \in 1..Len(N[v].args)}

\* other if isinstance(other, Element) else Element(other): an operand is
\* either an Element of the arena or a bare number that is wrapped.
Elem(k) == [isElem |-> TRUE, v |-> k]
Lit(c) == [isElem |-> FALSE, v |-> c]
Wrap(N, other) == IF other.isElem THEN N ELSE Append(N, Leaf(other.v))
WrapId(N, other) == IF other.isElem THEN other.v ELSE Len(N) + 1

\* Each builder returns the arena with the new Elements appended; the
\* result of the call is the last Element, Len of the returned arena.
Add(N, self, other) ==
    LET W == Wrap(N, other)
        o == WrapId(N, other)
    IN  Append(W, Element(VAdd(W[self].data, W[o].data), W[self].arr,
                          <<self, o>>, "+", 0, 0))

Mul(N, self, other) ==
    LET W == Wrap(N, other)
        o == WrapId(N, other)
    IN  Append(W, Element(VMul(W[self].data, W[o].data), W[self].arr,
                          <<self, o>>, "*", 0, 0))

Pow(N, self, p) ==
    Append(N, Element(VPow(N[self].data, p), N[self].arr, <<self>>, "**", p, 0))

ReluData(x) == IF x[1] < 0 THEN <<0>> ELSE x

Relu(N, self) ==
    Append(N, Element(ReluData(N[self].data), FALSE, <<self>>, "ReLU", 0, 0))

\* idx is the 0-based Python index
GetItem(N, self, idx) ==
    Append(N, Element(<<N[self].data[idx + 1]>>, FALSE, <<self>>, "getitem", 0, idx))

\* self * other**-1, other an Element
TrueDiv(N, self, other) ==
    LET N1 == Pow(N, other, -1)
    IN  Mul(N1, self, Elem(Len(N1)))

\* other * self**-1, other a bare number: float.__mul__ gives NotImplemented
\* and Element.__rmul__ computes (self**-1) * other
RTrueDiv(N, self, c) ==
    LET N1 == Pow(N, self, -1)
    IN  Mul(N1, Len(N1), Lit(c))

(***************************************************************************)
(* Element._ensure_grad_initialized and the _backward closures.  A closure *)
(* returns the gradients it leaves behind and the exception it raised, if  *)
(* any ("" for none): what it wrote before raising stays written.          *)
(***************************************************************************)
EnsureGradInitialized(N, g, v) ==
    IF g[v] = None THEN [g EXCEPT ![v] = ZerosLike(N[v].data)] ELSE g

Done(g) == [g |-> g, err |-> ""]
Raised(g, e) == [g |-> g, err |-> e]

\* A variant of AddBackward that forgets other.grad += out.grad.
AddBackwardSelfOnly(N, g, out) ==
    LET self == N[out].args[1]
        other == N[out].args[2]
        g2 == EnsureGradInitialized(N, EnsureGradInitialized(N, g, self), other)
    IN  IF g2[out] = None THEN Raised(g2, "TypeError")
        ELSE Done([g2 EXCEPT ![self] = VAdd(@, g2[out])])

\* self.grad += out.grad ; other.grad += out.grad
AddBackward(N, g, out) ==
    LET self == N[out].args[1]
        other == N[out].args[2]
        g2 == EnsureGradInitialized(N, EnsureGradInitialized(N, g, self), other)
        g3 == [g2 EXCEPT ![self] = VAdd(@, g2[out])]
    IN  IF g2[out] = None THEN Raised(g2, "TypeError")
        ELSE Done([g3 EXCEPT ![other] = VAdd(@, g3[out])])

\* A variant of MulBackward that scales each operand's gradient by the
\* operand's own data instead of the other operand's.
MulBackwardOwnData(N, g, out) ==
    LET self == N[out].args[1]
        other == N[out].args[2]
        g2 == EnsureGradInitialized(N, EnsureGradInitialized(N, g, self), other)
        g3 == [g2 EXCEPT ![self] = VAdd(@, VMul(N[self].data, g2[out]))]
    IN  IF g2[out] = None THEN Raised(g2, "TypeError")
        ELSE Done([g3 EXCEPT ![other] = VAdd(@, VMul(N[other].data, g3[out]))])

\* self.grad += other.data * out.grad ; other.grad += self.data * out.grad
MulBackward(N, g, out) ==
    LET self == N[out].args[1]
        other == N[out].args[2]
        g2 == EnsureGradInitialized(N, EnsureGradInitialized(N, g, self), other)
        g3 == [g2 EXCEPT ![self] = VAdd(@, VMul(N[other].data, g2[out]))]
    IN  IF g2[out] = None THEN Raised(g2, "TypeError")
        ELSE Done([g3 EXCEPT ![other] = VAdd(@, VMul(N[self].data, g3[out]))])

\* self._ensure_grad_initialized() ; other._ensure_grad_initialized() with
\* other the int/float exponent: AttributeError, before self.grad is updated
PowBackward(N, g, out) ==
    Raised(EnsureGradInitialized(N, g, N[out].args[1]), "AttributeError")

\* A variant of ReluBackward that passes the gradient wherever the input is
\* not negative, the input 0 included.
ReluBackwardAtZero(N, g, out) ==
    LET self == N[out].args[1]
        g1 == EnsureGradInitialized(N, g, self)
    IN  IF g1[out] = None THEN Raised(g1, "TypeError")
        ELSE Done([g1 EXCEPT ![self] =
                      VAdd(@, IF N[self].data[1] >= 0 THEN g1[out] ELSE <<0>>)])

\* self.grad += (out.data > 0) * out.grad
ReluBackward(N, g, out) ==
    LET self == N[out].args[1]
        g1 == EnsureGradInitialized(N, g, self)
    IN  IF g1[out] = None THEN Raised(g1, "TypeError")
        ELSE Done([g1 EXCEPT ![self] = VAdd(@, VMul(VPos(N[out].data), g1[out]))])

\* v._backward(): the closure the builder attached; Element.__init__'s
\* lambda: None for a leaf and for the result of __getitem__
LocalBackward(N, g, v) ==
    CASE N[v].op = "+" -> AddBackward(N, g, v)
      [] N[v].op = "*" -> MulBackward(N, g, v)
      [] N[v].op = "**" -> PowBackward(N, g, v)
      [] N[v].op = "ReLU" -> ReluBackward(N, g, v)
      [] OTHER -> Done(g)

(***************************************************************************)
(* Element.backward.  _prev is a Python set: the order in which build_topo *)
(* visits the two producers of an Element is not fixed by the code.  F is  *)
(* the set of Elements whose producers are visited second operand first.   *)
(***************************************************************************)
ChildOrder(N, v, F) ==
    LET a == N[v].args
    IN  IF Len(a) = 2 /\ a[1] = a[2] THEN <<a[1]>>
        ELSE IF Len(a) = 2 /\ v \in F THEN <<a[2], a[1]>>
        ELSE a

RECURSIVE BuildTopo(_, _, _, _)
RECURSIVE BuildTopoAll(_, _, _, _, _)
BuildTopo(N, F, v, st) ==
    IF v \in st.visited THEN st
    ELSE LET st1 == [st EXCEPT !.visited = @ \cup {v}]
             st2 == BuildTopoAll(N, F, ChildOrder(N, v, F), 1, st1)
         IN  [st2 EXCEPT !.topo = Append(@, v)]
BuildTopoAll(N, F, cs, k, st) ==
    IF k > Len(cs) THEN st
    ELSE BuildTopoAll(N, F, cs, k + 1, BuildTopo(N, F, cs[k], st))

Topo(N, F, root) == BuildTopo(N, F, root, [visited |-> {}, topo |-> <<>>]).topo

\* for v in reversed(topo): v._backward(), stopping at the first exception
RECURSIVE Walk(_, _, _, _)
Walk(N, topo, k, r) ==
    IF k = 0 \/ r.err # "" THEN r
    ELSE Walk(N, topo, k - 1, LocalBackward(N, r.g, topo[k]))

\* the Elements whose _backward the walk calls, in the order of the calls:
\* the one that raises is the last
RECURSIVE WalkCalls(_, _, _, _, _)
WalkCalls(N, topo, k, r, calls) ==
    IF k = 0 \/ r.err # "" THEN calls
    ELSE WalkCalls(N, topo, k - 1, LocalBackward(N, r.g, topo[k]), Append(calls, topo[k]))

Calls(N, g, root, F) ==
    LET topo == Topo(N, F, root)
        seeded == [g EXCEPT ![root] = OnesLike(N[root].data)]
    IN  WalkCalls(N, topo, Len(topo), Done(seeded), <<>>)

Backward(N, g, root, F) ==
    LET topo == Topo(N, F, root)
        seeded == [g EXCEPT ![root] = OnesLike(N[root].data)]
    IN  Walk(N, topo, Len(topo), Done(seeded))

Reach(N, root) == {Topo(N, {}, root)[k] : k \in 1..Len(Topo(N, {}, root))}

\* the iteration orders of the _prev sets that are enumerated
Orders(N, root) ==
    LET B == {v \in Reach(N, root) : Cardinality(Prev(N, v)) = 2}
    IN  IF Cardinality(B) <= MaxFullOrder THEN SUBSET B
        ELSE {{v \in B : v <= k} : k \in 0..Len(N)}

(***************************************************************************)
(* torchlet/nn.py.  A Neuron is [w, b, nonlin] with w the sequence of its  *)
(* weight Elements and b its bias Element; a Layer is a sequence of        *)
(* Neurons and an MLP a sequence of Layers.  A constructor returns the     *)
(* arena with the parameters appended, and the module.                     *)
(***************************************************************************)
\* random.uniform(-1, 1): the k-th draw of the generator seeded with seed
Rand(seed, k) == IF (seed + k) % 2 = 0 THEN 1 ELSE -1

RECURSIVE Weights(_, _, _)
Weights(N, seed, nin) ==
    IF nin = 0 THEN N
    ELSE LET W == Weights(N, seed, nin - 1)
         IN  Append(W, Leaf(Rand(seed, Len(W) + 1)))

Neuron(N, seed, nin, nonlin) ==
    LET W == Weights(N, seed, nin)
    IN  [N |-> Append(W, Leaf(0)),
         m |-> [w |-> [k \in 1..nin |-> Len(N) + k], b |-> Len(W) + 1,
                nonlin |-> nonlin]]

RECURSIVE Layer(_, _, _, _, _)
Layer(N, seed, nin, nout, nonlin) ==
    IF nout = 0 THEN [N |-> N, m |-> <<>>]
    ELSE LET rest == Layer(N, seed, nin, nout - 1, nonlin)
             n == Neuron(rest.N, seed, nin, nonlin)
         IN  [N |-> n.N, m |-> Append(rest.m, n.m)]

\* sz = [nin] + nouts; Layer(sz[i], sz[i+1], nonlin = i != len(nouts) - 1)
RECURSIVE MLPLayers(_, _, _, _, _)
MLPLayers(N, seed, nin, nouts, k) ==
    IF k = 0 THEN [N |-> N, m |-> <<>>]
    ELSE LET rest == MLPLayers(N, seed, nin, nouts, k - 1)
             sz == <<nin>> \o nouts
             l == Layer(rest.N, seed, sz[k], sz[k + 1], k # Len(nouts))
         IN  [N |-> l.N, m |-> Append(rest.m, l.m)]

MLP(N, seed, nin, nouts) == MLPLayers(N, seed, nin, nouts, Len(nouts))

\* An input x is a list of Elements or a single Element.  zip(self.w, x)
\* iterates a single Element through __getitem__; on 0-d data the first
\* data[0] raises IndexError, which ends the iteration with no item.
List(items) == [isList |-> TRUE, items |-> items]
Single(v) == [isList |-> FALSE, items |-> <<v>>]
IterItems(x) == IF x.isList THEN x.items ELSE <<>>

Min(a, b) == IF a < b THEN a ELSE b

\* act = sum((wi * xi for wi, xi in zip(self.w, x)), self.b)
RECURSIVE SumProducts(_, _, _, _, _)
SumProducts(N, w, xs, k, act) ==
    IF k > Min(Len(w), Len(xs)) THEN [N |-> N, out |-> act]
    ELSE LET N1 == Mul(N, w[k], Elem(xs[k]))
             N2 == Add(N1, act, Elem(Len(N1)))
         IN  SumProducts(N2, w, xs, k + 1, Len(N2))

NeuronCall(N, n, x) ==
    LET act == SumProducts(N, n.w, IterItems(x), 1, n.b)
    IN  IF n.nonlin THEN [N |-> Relu(act.N, act.out), out |-> Len(act.N) + 1]
        ELSE act

\* out = [n(x) for n in self.neurons]; out[0] if len(out) == 1 else out
RECURSIVE LayerOuts(_, _, _, _)
LayerOuts(N, layer, x, k) ==
    IF k = 0 THEN [N |-> N, out |-> <<>>]
    ELSE LET rest == LayerOuts(N, layer, x, k - 1)
             o == NeuronCall(rest.N, layer[k], x)
         IN  [N |-> o.N, out |-> Append(rest.out, o.out)]

LayerCall(N, layer, x) ==
    LET o == LayerOuts(N, layer, x, Len(layer))
    IN  [N |-> o.N, out |-> IF Len(o.out) = 1 THEN Single(o.out[1]) ELSE List(o.out)]

\* for layer in self.layers: x = layer(x)
RECURSIVE MLPCall(_, _, _, _)
MLPCall(N, layers, x, k) ==
    IF k = 0 THEN [N |-> N, out |-> x]
    ELSE LET rest == MLPCall(N, layers, x, k - 1)
         IN  LayerCall(rest.N, layers[k], rest.out)

\* A variant of NeuronParameters that lists the bias before the weights.
NeuronParametersBiasFirst(n) == <<n.b>> \o n.w

\* self.w + [self.b]
NeuronParameters(n) == n.w \o <<n.b>>

\* [p for n in self.neurons for p in n.parameters()]
RECURSIVE LayerParameters(_, _)
LayerParameters(layer, k) ==
    IF k = 0 THEN <<>>
    ELSE LayerParameters(layer, k - 1) \o NeuronParameters(layer[k])

\* [p for layer in self.layers for p in layer.parameters()]
RECURSIVE MLPParameters(_, _)
MLPParameters(layers, k) ==
    IF k = 0 THEN <<>>
    ELSE MLPParameters(layers, k - 1) \o LayerParameters(layers[k], Len(layers[k]))

\* the module held in net: a Neuron is kept as an MLP of one Layer of one
\* Neuron, and kind tells which class it is
Parameters(m) ==
    IF m.kind = "Neuron" THEN NeuronParameters(m.layers[1][1])
    ELSE MLPParameters(m.layers, Len(m.layers))

Call(N, m, x) ==
    IF m.kind = "Neuron"
    THEN LET o == NeuronCall(N, m.layers[1][1], x)
         IN  [N |-> o.N, out |-> Single(o.out)]
    ELSE MLPCall(N, m.layers, x, Len(m.layers))

\* Module.zero_grad: for p in self.parameters(): p.grad = 0
RECURSIVE ZeroGrad(_, _, _)
ZeroGrad(g, ps, k) ==
    IF k = 0 THEN g
    ELSE [ZeroGrad(g, ps, k - 1) EXCEPT ![ps[k]] = <<0>>]

(***************************************************************************)
(* The engine as a state machine: a caller builds a graph of at most cap   *)
(* Elements and then calls backward() on one of them, up to MaxCalls       *)
(* times.  log records, for every backward() call, its root, the exception *)
(* it raised, the gradients it left, the list build_topo made and the      *)
(* Elements whose _backward it called, in the order of the calls.          *)
(***************************************************************************)
NoNet == [kind |-> "none", nin |-> 0, nouts |-> <<>>, layers |-> <<>>]

InitWith(c) ==
    /\ nodes = <<>>
    /\ grad = <<>>
    /\ err = ""
    /\ log = <<>>
    /\ net = NoNet
    /\ outs = <<>>
    /\ cap = c

Init == InitWith(MaxNodes)

Ids == 1..Len(nodes)

SameShape(N, a, b) == N[a].arr = N[b].arr /\ Len(N[a].data) = Len(N[b].data)

\* A variant of Extend that materializes the gradients of the producers of
\* the new Elements at call time.
ExtendEager(N) ==
    /\ Len(N) <= cap
    /\ \A v \in 1..Len(N) : Small(N[v].data)
    /\ nodes' = N
    /\ grad' = [v \in 1..Len(N) |->
                  IF v > Len(nodes) THEN None
                  ELSE IF \E u \in (Len(nodes) + 1)..Len(N) : v \in Prev(N, u)
                       THEN EnsureGradInitialized(nodes, grad, v)[v]
                       ELSE grad[v]]
    /\ err' = ""
    /\ UNCHANGED <<log, net, outs, cap>>

\* the arena N replaces nodes: the new Elements start with grad None, and
\* nothing else is written at call time
Extend(N) ==
    /\ Len(N) <= cap
    /\ \A v \in 1..Len(N) : Small(N[v].data)
    /\ nodes' = N
    /\ grad' = [v \in 1..Len(N) |-> IF v <= Len(nodes) THEN grad[v] ELSE None]
    /\ err' = ""
    /\ UNCHANGED <<log, net, outs, cap>>

\* a builder call made while the graph is built, before any backward()
Built(N) == log = <<>> /\ Extend(N)

NewElement ==
    \/ \E x \in LeafScalars : Built(Append(nodes, Leaf(x)))
    \/ \E xs \in LeafArrays : Built(Append(nodes, LeafArr(xs)))

DoAdd ==
    \/ \E a, b \in Ids : SameShape(nodes, a, b) /\ Built(Add(nodes, a, Elem(b)))
    \/ \E a \in Ids, c \in Literals : ~nodes[a].arr /\ Built(Add(nodes, a, Lit(c)))

DoMul ==
    \/ \E a, b \in Ids : SameShape(nodes, a, b) /\ Built(Mul(nodes, a, Elem(b)))
    \/ \E a \in Ids, c \in Literals : ~nodes[a].arr /\ Built(Mul(nodes, a, Lit(c)))

DoPow ==
    \E a \in Ids, p \in Exponents :
        /\ \A i \in 1..Len(nodes[a].data) : ExactPow(nodes[a].data[i], p)
        /\ Built(Pow(nodes, a, p))

DoRelu == \E a \in Ids : ~nodes[a].arr /\ Built(Relu(nodes, a))

DoGetItem ==
    \E a \in Ids : nodes[a].arr /\
        \E i \in 0..(Len(nodes[a].data) - 1) : Built(GetItem(nodes, a, i))

DoTrueDiv ==
    \E a, b \in Ids :
        /\ SameShape(nodes, a, b)
        /\ \A i \in 1..Len(nodes[b].data) : ExactPow(nodes[b].data[i], -1)
        /\ Built(TrueDiv(nodes, a, b))

DoRTrueDiv ==
    \E a \in Ids, c \in Literals :
        /\ ~nodes[a].arr
        /\ ExactPow(nodes[a].data[1], -1)
        /\ Built(RTrueDiv(nodes, a, c))

\* root.backward(); a later call is on the root of the first
DoBackward ==
    /\ Len(log) < MaxCalls
    /\ \E root \in Ids : \E F \in Orders(nodes, root) :
        LET r == Backward(nodes, grad, root, F)
        IN  /\ log # <<>> => root = log[1].root
            /\ grad' = r.g
            /\ err' = r.err
            /\ log' = Append(log, [op |-> "backward", root |-> root,
                                   err |-> r.err, grad |-> r.g, nx |-> 0, out |-> <<>>,
                                   topo |-> Topo(nodes, F, root),
                                   calls |-> Calls(nodes, grad, root, F)])
    /\ UNCHANGED <<nodes, net, outs, cap>>

Next ==
    \/ NewElement
    \/ DoAdd
    \/ DoMul
    \/ DoPow
    \/ DoRelu
    \/ DoGetItem
    \/ DoTrueDiv
    \/ DoRTrueDiv
    \/ DoBackward

Spec == Init /\ [][Next]_vars

\* the primitive builders alone, on a smaller arena
InitCore == InitWith(MaxCore)

NextCore ==
    \/ NewElement
    \/ DoAdd
    \/ DoMul
    \/ DoPow
    \/ DoRelu
    \/ DoGetItem
    \/ DoBackward

SpecCore == InitCore /\ [][NextCore]_vars

(***************************************************************************)
(* A caller that goes on building after backward() has run: the builders   *)
(* are called at any time, on Elements whose grad may already be set.      *)
(***************************************************************************)
CallAdd ==
    \/ \E a, b \in Ids : SameShape(nodes, a, b) /\ Extend(Add(nodes, a, Elem(b)))
    \/ \E a \in Ids, c \in Literals : ~nodes[a].arr /\ Extend(Add(nodes, a, Lit(c)))

CallMul ==
    \/ \E a, b \in Ids : SameShape(nodes, a, b) /\ Extend(Mul(nodes, a, Elem(b)))
    \/ \E a \in Ids, c \in Literals : ~nodes[a].arr /\ Extend(Mul(nodes, a, Lit(c)))

CallPow ==
    \E a \in Ids, p \in Exponents :
        /\ \A i \in 1..Len(nodes[a].data) : ExactPow(nodes[a].data[i], p)
        /\ Extend(Pow(nodes, a, p))

CallRelu == \E a \in Ids : ~nodes[a].arr /\ Extend(Relu(nodes, a))

CallGetItem ==
    \E a \in Ids : nodes[a].arr /\
        \E i \in 0..(Len(nodes[a].data) - 1) : Extend(GetItem(nodes, a, i))

CallTrueDiv ==
    \E a, b \in Ids :
        /\ SameShape(nodes, a, b)
        /\ \A i \in 1..Len(nodes[b].data) : ExactPow(nodes[b].data[i], -1)
        /\ Extend(TrueDiv(nodes, a, b))

NextAnyTime ==
    \/ NewElement
    \/ CallAdd
    \/ CallMul
    \/ CallPow
    \/ CallRelu
    \/ CallGetItem
    \/ CallTrueDiv
    \/ DoBackward

SpecAnyTime == InitCore /\ [][NextAnyTime]_vars

(***************************************************************************)
(* The modules as a state machine: a caller constructs a Neuron or an MLP, *)
(* calls it once on a list of input Elements (a module of at most          *)
(* MaxInvoked parameters), calls backward() on an output up to MaxCalls    *)
(* times, and zero_grad() at any time.  log records the calls.             *)
(***************************************************************************)
InitNN == InitWith(0)

\* the output widths of the MLPs that are constructed, and MLP(3, [4, 4, 1])
RECURSIVE Widths(_)
Widths(d) ==
    IF d = 0 THEN {<<>>}
    ELSE {Append(ws, w) : ws \in Widths(d - 1), w \in 1..MaxWidth}

NoutsChoices == UNION {Widths(d) : d \in 1..MaxDepth}

Fresh(N) == [v \in 1..Len(N) |-> IF v <= Len(nodes) THEN grad[v] ELSE None]

NewNeuron ==
    /\ net = NoNet
    /\ \E seed \in Seeds, nin \in 0..MaxIn, nonlin \in BOOLEAN :
        LET n == Neuron(nodes, seed, nin, nonlin)
        IN  /\ nodes' = n.N
            /\ grad' = Fresh(n.N)
            /\ net' = [kind |-> "Neuron", nin |-> nin, nouts |-> <<1>>,
                       layers |-> <<<<n.m>>>>]
    /\ err' = ""
    /\ UNCHANGED <<log, outs, cap>>

NewMLP ==
    /\ net = NoNet
    /\ \E seed \in Seeds :
        \E c \in ((1..MaxIn) \X NoutsChoices) \cup {<<3, <<4, 4, 1>>>>} :
            LET m == MLP(nodes, seed, c[1], c[2])
            IN  /\ nodes' = m.N
                /\ grad' = Fresh(m.N)
                /\ net' = [kind |-> "MLP", nin |-> c[1], nouts |-> c[2],
                           layers |-> m.m]
    /\ err' = ""
    /\ UNCHANGED <<log, outs, cap>>

Happened(op) == \E k \in 1..Len(log) : log[k].op = op
Count(op) == Cardinality({k \in 1..Len(log) : log[k].op = op})

\* x = [Element(v), ...]; y = net(x)
DoInvoke ==
    /\ net # NoNet
    /\ ~Happened("invoke")
    /\ Len(Parameters(net)) <= MaxInvoked
    /\ \E nx \in 0..Min(net.nin + 1, Len(Inputs)) :
        LET xs == [k \in 1..nx |-> Inputs[k]]
            N0 == nodes \o [k \in 1..nx |-> Leaf(xs[k])]
            y == Call(N0, net, List([k \in 1..nx |-> Len(nodes) + k]))
        IN  /\ nodes' = y.N
            /\ grad' = Fresh(y.N)
            /\ outs' = y.out.items
            /\ log' = Append(log, [op |-> "invoke", root |-> 0, err |-> "",
                                   grad |-> Fresh(y.N), nx |-> nx, out |-> y.out.items])
    /\ err' = ""
    /\ UNCHANGED <<net, cap>>

\* y.backward() for an output y of the module; a later call is on the same y
DoBackwardOut ==
    /\ Count("backward") < MaxCalls
    /\ \E k \in 1..Len(outs) : \E F \in Orders(nodes, outs[k]) :
        LET r == Backward(nodes, grad, outs[k], F)
        IN  /\ \A j \in 1..Len(log) : log[j].op = "backward" => log[j].root = outs[k]
            /\ grad' = r.g
            /\ err' = r.err
            /\ log' = Append(log, [op |-> "backward", root |-> outs[k],
                                   err |-> r.err, grad |-> r.g, nx |-> 0, out |-> <<>>])
    /\ UNCHANGED <<nodes, net, outs, cap>>

\* net.zero_grad(), not right after another zero_grad()
DoZeroGrad ==
    /\ net # NoNet
    /\ log # <<>> => log[Len(log)].op # "zero_grad"
    /\ LET ps == Parameters(net)
           g == ZeroGrad(grad, ps, Len(ps))
       IN  /\ grad' = g
           /\ log' = Append(log, [op |-> "zero_grad", root |-> 0, err |-> "",
                                  grad |-> g, nx |-> 0, out |-> <<>>])
    /\ err' = ""
    /\ UNCHANGED <<nodes, net, outs, cap>>

NextNN ==
    \/ NewNeuron
    \/ NewMLP
    \/ DoInvoke
    \/ DoBackwardOut
    \/ DoZeroGrad

SpecNN == InitNN /\ [][NextNN]_vars

(***************************************************************************)
(* What the claims speak of.  Expected is the chain rule as the            *)
(* specification states it: the gradient of root with respect to v is the  *)
(* sum, over every directed producer path from v to root, of the product   *)
(* of the local derivatives along the path.                                *)
(***************************************************************************)
IsLeaf(N, v) == N[v].args = <<>>
IsScalar(N, v) == ~N[v].arr
Consumers(N, v) == {c \in 1..Len(N) : v \in Prev(N, c)}

\* the local derivative of c with respect to its k-th operand, times gc
Local(N, c, k, gc) ==
    LET v == N[c].args[k]
        x == N[v].data
    IN  CASE N[c].op = "+" -> gc
          [] N[c].op = "*" -> VMul(N[N[c].args[3 - k]].data, gc)
          [] N[c].op = "**" ->
                [i \in 1..Len(x) |-> N[c].p * IPow(x[i], N[c].p - 1) * gc[i]]
          [] N[c].op = "ReLU" -> VMul(VPos(N[c].data), gc)
          [] N[c].op = "getitem" ->
                [i \in 1..Len(x) |-> IF i = N[c].idx + 1 THEN gc[1] ELSE 0]

RECURSIVE Expected(_, _, _)
RECURSIVE ExpectedFrom(_, _, _, _, _)
Expected(N, root, v) ==
    IF v = root THEN OnesLike(N[v].data)
    ELSE ExpectedFrom(N, Reach(N, root), root, v, v + 1)
ExpectedFrom(N, R, root, v, c) ==
    IF c > root THEN ZerosLike(N[v].data)
    ELSE LET rest == ExpectedFrom(N, R, root, v, c + 1)
             gc == Expected(N, root, c)
             one == IF N[c].args[1] = v THEN VAdd(rest, Local(N, c, 1, gc)) ELSE rest
         IN  IF c \notin R \/ v \notin Prev(N, c) THEN rest
             ELSE IF Len(N[c].args) = 2 /\ N[c].args[2] = v
                  THEN VAdd(one, Local(N, c, 2, gc))
                  ELSE one

\* the first backward() call has been made, on root r, and has returned
FirstReturned(r) == Len(log) >= 1 /\ log[1].root = r /\ log[1].err = ""

Ops(N, root) == {N[v].op : v \in Reach(N, root)}

\* C1: after Backward(root) returns on a freshly constructed graph, every
\* Value reachable from root has a materialized grad equal to the sum over
\* the producer paths of the products of the local derivatives, whichever
\* of Add, Multiply, Power, ReLU and Index built the graph.
C1_ChainRuleAllBuilders ==
    \A r \in Ids : FirstReturned(r) =>
        \A v \in Reach(nodes, r) :
            log[1].grad[v] # None /\ log[1].grad[v] = Expected(nodes, r, v)

\* The part of C1 the code keeps: graphs whose Values reachable from root
\* were built by Add, Multiply and ReLU.
ChainRuleAddMulRelu ==
    \A r \in Ids :
        (Len(log) >= 1 /\ log[1].root = r /\ Ops(nodes, r) \subseteq {"", "+", "*", "ReLU"})
        => /\ log[1].err = ""
           /\ \A v \in Reach(nodes, r) : log[1].grad[v] = Expected(nodes, r, v)

\* a and b are two distinct scalar leaves whose only consumer is c
TwoLeaves(c) ==
    /\ Len(nodes[c].args) = 2
    /\ LET a == nodes[c].args[1]
           b == nodes[c].args[2]
       IN  /\ a # b
           /\ IsLeaf(nodes, a) /\ IsLeaf(nodes, b)
           /\ IsScalar(nodes, a) /\ IsScalar(nodes, b)
           /\ Consumers(nodes, a) = {c} /\ Consumers(nodes, b) = {c}

\* C2: for two scalar leaves a and b with no other consumers, c = Add(a, b)
\* has c.data = a.data + b.data, and the first Backward(c) returns with
\* a.grad = b.grad = 1.
C2_AddOfLeaves ==
    \A c \in Ids : (nodes[c].op = "+" /\ TwoLeaves(c)) =>
        LET a == nodes[c].args[1]
            b == nodes[c].args[2]
        IN  /\ nodes[c].data = <<nodes[a].data[1] + nodes[b].data[1]>>
            /\ (Len(log) >= 1 /\ log[1].root = c) =>
                   /\ log[1].err = ""
                   /\ log[1].grad[a] = <<1>>
                   /\ log[1].grad[b] = <<1>>

C2_Witness ==
    \E c \in Ids :
        /\ nodes[c].op = "+" /\ TwoLeaves(c)
        /\ nodes[nodes[c].args[1]].data # nodes[nodes[c].args[2]].data
        /\ FirstReturned(c)

\* C3: for two scalar leaves a and b with no other consumers, d =
\* Multiply(a, b) has d.data = a.data * b.data, and the first Backward(d)
\* returns with a.grad = b.data and b.grad = a.data.
C3_MulOfLeaves ==
    \A d \in Ids : (nodes[d].op = "*" /\ TwoLeaves(d)) =>
        LET a == nodes[d].args[1]
            b == nodes[d].args[2]
        IN  /\ nodes[d].data = <<nodes[a].data[1] * nodes[b].data[1]>>
            /\ (Len(log) >= 1 /\ log[1].root = d) =>
                   /\ log[1].err = ""
                   /\ log[1].grad[a] = nodes[b].data
                   /\ log[1].grad[b] = nodes[a].data

C3_Witness ==
    \E d \in Ids :
        /\ nodes[d].op = "*" /\ TwoLeaves(d)
        /\ nodes[nodes[d].args[1]].data # nodes[nodes[d].args[2]].data
        /\ FirstReturned(d)

\* C4: for a leaf a and an exponent p # 0, Backward(Power(a, p)) completes
\* and leaves a.grad = p * a.data**(p-1); a backward pass through a
\* Divide or ReverseDivide by a Value, built on Power, completes as well.
C4_PowerBackward ==
    \A r \in Ids : (Len(log) >= 1 /\ log[1].root = r) =>
        /\ "**" \in Ops(nodes, r) => log[1].err = ""
        /\ (nodes[r].op = "**" /\ nodes[r].p # 0 /\ IsLeaf(nodes, nodes[r].args[1])) =>
              LET a == nodes[r].args[1]
              IN  log[1].grad[a] =
                      [i \in 1..Len(nodes[a].data) |->
                          nodes[r].p * IPow(nodes[a].data[i], nodes[r].p - 1)]

\* the producer edges into v from the Values of R
EdgesInto(N, R, v) ==
    {e \in R \X {1, 2} : e[2] <= Len(N[e[1]].args) /\ N[e[1]].args[e[2]] = v}

\* C5: a leaf consumed by two downstream operations reachable from root
\* (or twice by the same Multiply) has, after Backward(root) on a fresh
\* graph, the sum of the contributions of the individual paths as its grad.
C5_AccumulationLaw ==
    \A r \in Ids : FirstReturned(r) =>
        \A v \in Reach(nodes, r) :
            (IsLeaf(nodes, v) /\ Cardinality(EdgesInto(nodes, Reach(nodes, r), v)) >= 2)
            => log[1].grad[v] = Expected(nodes, r, v)

\* The case of C5 the specification gives: c = a*a + a leaves
\* a.grad = 2*a.data + 1.
SquarePlusSelf ==
    \A c \in Ids :
        (/\ Len(log) >= 1 /\ log[1].root = c
         /\ nodes[c].op = "+"
         /\ nodes[nodes[c].args[1]].op = "*"
         /\ IsLeaf(nodes, nodes[c].args[2])
         /\ nodes[nodes[c].args[1]].args = <<nodes[c].args[2], nodes[c].args[2]>>
         /\ Consumers(nodes, nodes[c].args[2]) = {c, nodes[c].args[1]}
         /\ Consumers(nodes, nodes[c].args[1]) = {c})
        => LET a == nodes[c].args[2]
           IN  log[1].grad[a] = [i \in 1..Len(nodes[a].data) |-> 2 * nodes[a].data[i] + 1]

\* C6: when Backward(root) is called twice on the same graph, every leaf
\* reachable from root has, after the second call, exactly twice the grad
\* it had after the first.
C6_TwiceDoubles ==
    (Len(log) >= 2 /\ log[1].err = "" /\ log[2].err = "") =>
        \A v \in Reach(nodes, log[1].root) :
            (IsLeaf(nodes, v) /\ v # log[1].root /\ log[1].grad[v] # None)
            => log[2].grad[v] = [i \in 1..Len(log[1].grad[v]) |-> 2 * log[1].grad[v][i]]

\* C8: r = Index(a, i) is a Value over a.data[i] with a as its sole
\* producer, and Backward adds r.grad into a.grad at position i only.
C8_IndexPropagation ==
    \A r \in Ids : FirstReturned(r) =>
        \A x \in Reach(nodes, r) : nodes[x].op = "getitem" =>
            LET a == nodes[x].args[1]
                i == nodes[x].idx + 1
            IN  /\ nodes[x].data = <<nodes[a].data[i]>>
                /\ Prev(nodes, x) = {a}
                /\ (Consumers(nodes, a) \cap Reach(nodes, r) = {x}) =>
                       log[1].grad[a] =
                           [j \in 1..Len(nodes[a].data) |->
                               IF j = i THEN log[1].grad[x][1] ELSE 0]

\* C7: on a module whose output graph has been through Backward(root),
\* ZeroGrad and then Backward(root) again leave every parameter with the
\* grad a single Backward gives on the freshly constructed graph.
C7_ZeroGradThenBackward ==
    \A k \in 1..(Len(log) - 2) :
        (/\ log[k].op = "backward" /\ log[k].err = ""
         /\ \A j \in 1..(k - 1) : log[j].op # "backward"
         /\ log[k + 1].op = "zero_grad"
         /\ log[k + 2].op = "backward" /\ log[k + 2].root = log[k].root)
        => \A i \in 1..Len(Parameters(net)) :
               LET q == Parameters(net)[i]
               IN  q \in Reach(nodes, log[k].root) =>
                       /\ log[k].grad[q] = Expected(nodes, log[k].root, q)
                       /\ log[k + 2].grad[q] = log[k].grad[q]

\* C9: Unit.Invoke on an input sequence whose length differs from the
\* Unit's input width fails with ShapeMismatch and returns no Value.
C9_ShapeMismatch ==
    \A k \in 1..Len(log) :
        (net.kind = "Neuron" /\ log[k].op = "invoke" /\ log[k].nx # net.nin)
        => log[k].err = "ShapeMismatch" /\ log[k].out = <<>>

\* sum over the layers i <= k of n_i * (n_(i-1) + 1)
RECURSIVE ParamCount(_, _, _)
ParamCount(nin, nouts, k) ==
    IF k = 0 THEN 0
    ELSE ParamCount(nin, nouts, k - 1) + nouts[k] * ((<<nin>> \o nouts)[k] + 1)

\* C10: Parameters() on a Stack of input width n0 and layer widths
\* [n1..nk] returns exactly the sum over the layers of n_i * (n_(i-1) + 1)
\* Values (41 for [3,4,4,1]), none twice, layer by layer, unit by unit,
\* weights then bias; in every state, whatever Invoke, Backward and
\* ZeroGrad calls came before, they are the same Values in the same order:
\* the parameters in the order of their construction.
C10_Parameters ==
    net.kind = "MLP" =>
        LET ps == Parameters(net)
            sz == <<net.nin>> \o net.nouts
        IN  /\ Len(ps) = ParamCount(net.nin, net.nouts, Len(net.nouts))
            /\ (net.nin = 3 /\ net.nouts = <<4, 4, 1>>) => Len(ps) = 41
            /\ \A i, j \in 1..Len(ps) : i # j => ps[i] # ps[j]
            /\ \A i \in 1..Len(ps) : ps[i] = i /\ IsLeaf(nodes, i)
            /\ Len(net.layers) = Len(net.nouts)
            /\ \A l \in 1..Len(net.layers) :
                  /\ Len(net.layers[l]) = net.nouts[l]
                  /\ \A u \in 1..net.nouts[l] :
                        LET off == ParamCount(net.nin, net.nouts, l - 1)
                                       + (u - 1) * (sz[l] + 1)
                            n == net.layers[l][u]
                        IN  /\ Len(n.w) = sz[l]
                            /\ \A j \in 1..sz[l] : ps[off + j] = n.w[j]
                            /\ ps[off + sz[l] + 1] = n.b

C10_Witness ==
    /\ net.kind = "MLP"
    /\ Len(net.nouts) >= 2
    /\ net.nin >= 2
    /\ Happened("invoke") /\ Happened("zero_grad")
    /\ Len(log) >= 3
    /\ log[Len(log)].op = "backward" /\ log[Len(log)].err = ""

(***************************************************************************)
(* C11: no builder (Add, Multiply, Power, ReLU, Index, Divide) changes the *)
(* grad, the data or the producers of an Element that exists when it is    *)
(* called: a step that adds Elements leaves every earlier Element and its  *)
(* grad as they were, and a step that changes the grad of an Element is a  *)
(* backward() call.                                                        *)
(***************************************************************************)
C11_BuildersFrame ==
    [][/\ Len(nodes') >= Len(nodes)
       /\ \A v \in Ids :
            /\ nodes'[v] = nodes[v]
            /\ nodes' # nodes => grad'[v] = grad[v]
            /\ grad'[v] # grad[v] =>
                    /\ Len(log') = Len(log) + 1
                    /\ log'[Len(log')].op = "backward"]_vars

\* a builder has been called after a backward() that left an earlier
\* Element with a nonzero grad, which the Element still has
C11_Witness ==
    /\ log # <<>>
    /\ Len(nodes) > Len(log[Len(log)].grad)
    /\ \E v \in 1..Len(log[Len(log)].grad) :
        /\ grad[v] = log[Len(log)].grad[v]
        /\ grad[v] # None
        /\ grad[v] # ZerosLike(nodes[v].data)
        /\ \E u \in (Len(log[Len(log)].grad) + 1)..Len(nodes) : v \in Prev(nodes, u)

\* the grad of v before the k-th logged call, an unset grad read as zeros
GradBefore(k, v) ==
    IF k > 1 /\ log[k - 1].grad[v] # None THEN log[k - 1].grad[v]
    ELSE ZerosLike(nodes[v].data)

\* the ReLU Elements r reachable from the root of a call, each with its
\* input a when r is the only reachable consumer of a
ReluPairs(root) ==
    {<<a, r>> \in Ids \X Ids :
        /\ r \in Reach(nodes, root)
        /\ nodes[r].op = "ReLU"
        /\ nodes[r].args = <<a>>
        /\ Consumers(nodes, a) \cap Reach(nodes, root) = {r}}

(***************************************************************************)
(* C12: for a scalar a, relu(a).data is max(0, a.data); a backward() that  *)
(* goes through the ReLU Element r adds to a.grad exactly 0 when r.data is *)
(* 0 (a.data = 0 included) and exactly r.grad when r.data is positive.     *)
(***************************************************************************)
C12_ReluExact ==
    /\ \A r \in Ids : nodes[r].op = "ReLU" =>
            LET x == nodes[nodes[r].args[1]].data[1]
            IN  nodes[r].data = <<IF x > 0 THEN x ELSE 0>>
    /\ \A k \in 1..Len(log) :
        log[k].op = "backward" /\ log[k].err = "" =>
            \A pr \in ReluPairs(log[k].root) :
                LET a == pr[1]
                    r == pr[2]
                    added == log[k].grad[a][1] - GradBefore(k, a)[1]
                IN  /\ log[k].grad[a] # None
                    /\ log[k].grad[r] # None
                    /\ nodes[r].data[1] = 0 => added = 0
                    /\ nodes[r].data[1] > 0 => added = log[k].grad[r][1]

\* backward() on r = relu(a) with a.data exactly 0 has returned: r.grad is 1
\* and a.grad is 0
C12_Witness ==
    /\ log # <<>>
    /\ log[1].err = ""
    /\ \E pr \in ReluPairs(log[1].root) :
        /\ nodes[pr[1]].data = <<0>>
        /\ log[1].grad[pr[2]] = <<1>>
        /\ grad[pr[1]] = <<0>>

\* the Elements from which S is reached along producer edges, S included
RECURSIVE Ancestors(_, _)
Ancestors(N, S) ==
    LET T == S \cup UNION {Prev(N, v) : v \in S}
    IN  IF T = S THEN S ELSE Ancestors(N, T)

\* seq lists every member of S exactly once and nothing else
ListsOnce(seq, S) ==
    /\ {seq[i] : i \in 1..Len(seq)} = S
    /\ Len(seq) = Cardinality(S)

\* u comes before v in seq
Before(seq, u, v) ==
    \E i, j \in 1..Len(seq) : i < j /\ seq[i] = u /\ seq[j] = v

\* every Element of the list comes after all of its producers
AfterProducers(N, topo) ==
    \A i \in 1..Len(topo) : \A p \in Prev(N, topo[i]) : Before(topo, p, topo[i])

(***************************************************************************)
(* C13: in every backward() call, build_topo lists every Element reachable *)
(* from root exactly once, each after all of its producers; the reverse    *)
(* walk calls the _backward of each of them exactly once, and only after   *)
(* the _backward of each of its reachable consumers; and no _backward      *)
(* reads a grad that is still unset.                                       *)
(***************************************************************************)
C13_TopoAndReverseWalk ==
    \A k \in 1..Len(log) :
        LET e == log[k]
            R == Ancestors(nodes, {e.root})
        IN  /\ ListsOnce(e.topo, R)
            /\ AfterProducers(nodes, e.topo)
            /\ ListsOnce(e.calls, R)
            /\ \A v \in R : \A c \in Consumers(nodes, v) \cap R : Before(e.calls, c, v)
            /\ e.err # "TypeError"

\* The part of C13 about build_topo, which holds in every call.
TopoPostOrder ==
    \A k \in 1..Len(log) :
        /\ ListsOnce(log[k].topo, Ancestors(nodes, {log[k].root}))
        /\ AfterProducers(nodes, log[k].topo)

\* The walk calls the _backward of the Elements in the reverse of the list,
\* all of them when the call returns and up to the one that raises otherwise.
WalkReverseTopo ==
    \A k \in 1..Len(log) :
        LET e == log[k]
            n == Len(e.topo)
        IN  /\ Len(e.calls) <= n
            /\ \A i \in 1..Len(e.calls) : e.calls[i] = e.topo[n + 1 - i]
            /\ (e.err = "") <=> (Len(e.calls) = n)

\* On graphs built from Add, Multiply and ReLU alone the whole of C13 holds.
TopoAndReverseWalkAddMulRelu ==
    (\A v \in Ids : nodes[v].op \in {"", "+", "*", "ReLU"}) =>
        /\ TopoPostOrder
        /\ WalkReverseTopo
        /\ \A k \in 1..Len(log) :
            /\ log[k].err = ""
            /\ ListsOnce(log[k].calls, Ancestors(nodes, {log[k].root}))
            /\ \A v \in Ancestors(nodes, {log[k].root}) :
                \A c \in Consumers(nodes, v) \cap Ancestors(nodes, {log[k].root}) :
                    Before(log[k].calls, c, v)

====
